---- MODULE Spec2Model ----
(***************************************************************************)
(* Zeta signaling server: the connection registry, the liveness timers and *)
(* the message router of src/server.js.  The file holds two servers:       *)
(*   - the single-Source server (lines 1-399): one androidClient, a Map of *)
(*     browserClients keyed by socket, per-socket ping timers, a           *)
(*     per-socket connection timeout and a 30 s cleanup sweep;             *)
(*   - the multi-Source "Render" server (lines 400-675): Maps              *)
(*     androidClients / browserClients keyed by clientId, one keepalive    *)
(*     pass and one stale-cleanup pass.                                    *)
(* `variant` selects which server a behaviour runs.  Time is counted in    *)
(* units of 15 s (single-Source) or 30 s (multi-Source).  A timer fires   *)
(* at its due time: time does not advance past a due timer.               *)
(* Timers due at the same instant, network events and messages interleave *)
(* freely.                                                                 *)
(*                                                                         *)
(* ws library behaviour assumed (the library is not part of the source):   *)
(* close() on an OPEN socket makes it CLOSING and is a no-op otherwise;    *)
(* the 'close' event is emitted when the socket becomes CLOSED; messages   *)
(* and pongs may still arrive while CLOSING; send() on a socket that is    *)
(* not OPEN delivers nothing and does not throw; send() and ping() on an   *)
(* OPEN socket do not throw.  clientId (`${ip}-${Date.now()}`) is taken to *)
(* be distinct for distinct connections.                                   *)
(***************************************************************************)
EXTENDS Integers, Sequences, FiniteSets, TLC

\* ---------------------------------------------------------------- bounds
MaxConns == 3
MaxTime == 4
MaxFrames == 4
MaxConnectTime == 0
MaxFrameTime == 1
RouterConns == 2

\* ------------------------------------------------------ program constants
\* single-Source server, in units of 15 s
PING_INTERVAL == 1
CONNECTION_TIMEOUT == 4
CLEANUP_INTERVAL == 2
\* multi-Source server, in units of 30 s
RENDER_PING_INTERVAL == 1
CLIENT_TIMEOUT == 3
STALE_INTERVAL == 2

Null == 0
NoTimer == 0 - 1
Absent == 0 - 1

Conns == 1 .. MaxConns
ConnOrNull == 0 .. MaxConns

\* ------------------------------------------------------------- envelopes
\* An envelope: type plus the optional fields the router reads or writes.
\* client: the `client` field of a client-type envelope; androidId /
\* browserId: 0 when the field is absent; info: count, id or clientId
\* carried by server-made envelopes (0 when unused).
Env(t, cl, aid, bid, inf) ==
    [type |-> t, client |-> cl, androidId |-> aid, browserId |-> bid, info |-> inf]

\* The custom viewer tag connection c may put in its client-type envelope.
TagOf(c) == MaxConns + c

OpaqueTypes == {"offer", "camera-status", "camera-error"}

\* Frames a client of the single-Source server may send.  "BAD" is a frame
\* JSON.parse rejects.
Frames1 ==
    {Env(t, "", 0, 0, 0) : t \in {"BAD", "ping", "pong"} \cup OpaqueTypes}
    \cup {Env("client-type", cl, 0, 0, 0) : cl \in {"android", "browser", "other"}}

\* Frames connection c may send to the multi-Source server.
Frames2(c) ==
    {Env(t, "", 0, 0, 0) : t \in {"BAD", "ping", "pong", "camera-status"}}
    \cup {Env("offer", "", a, 0, 0) : a \in ConnOrNull}
    \cup {Env("client-type", cl, 0, 0, 0) : cl \in {"android", "other"}}
    \cup {Env("client-type", "browser", 0, b, 0) : b \in {0, TagOf(c)}}

\* A send call: the handle it is made on, whether the handle was OPEN (the
\* envelope is delivered) and the envelope.
Send(to, rs, msg) == [to |-> to, ok |-> (rs[to] = "OPEN"), msg |-> msg]

\* ----------------------------------------------------------------- state
VARIABLES
    variant,              \* "single" | "multi"
    now,                  \* Date.now(), in units
    readyState,           \* ws.readyState per connection; "NONE" before connect
    out,                  \* the send calls of the last step, in order
    handled,              \* the event the last step handled
    frames,               \* frames (envelopes and pongs) received so far
    \* single-Source server
    androidClient,        \* connection or Null
    browserClients,       \* Map ws -> info, as the sequence of its keys
    pingIntervals,        \* Map ws -> interval, as the timer's next due time
    connectionTimestamps, \* Map ws -> timestamp (Absent when no entry)
    timeoutTimer,         \* ws._timeout, as its due time
    nextCleanup,          \* due time of the cleanup setInterval
    errorCount,           \* errorCount of the last broadcastToBrowsers call
    \* multi-Source server
    androidClients,       \* Map clientId -> {ws, lastSeen}, insertion order
    renderBrowserClients, \* Map clientId -> {ws, browserId, lastSeen}
    nextKeepalive,        \* due time of the keepalive setInterval
    nextStale,            \* due time of the stale-cleanup setInterval
    \* history (observations, read by no handler)
    pingPending,          \* a probe was sent to c and is not yet answered
    missed,               \* c let time pass with a probe unanswered
    timedOut,             \* role c had when the timeout machinery closed or evicted it
    replaced,             \* c was the Source a newer Source replaced
    quiet,                \* c sent no envelope and no pong since it registered as Source
    stayed,               \* stayed[s]: Viewers registered and OPEN ever since s registered
    notified,             \* notified[s][v]: android-disconnected events about s delivered to v
    regStamp              \* regStamp[c]: rank of c's latest entry into androidClients (0: never)

singleVars == <<androidClient, browserClients, pingIntervals,
                connectionTimestamps, timeoutTimer, nextCleanup, errorCount>>
multiVars == <<androidClients, renderBrowserClients, nextKeepalive, nextStale>>
histVars == <<pingPending, missed, timedOut, replaced, quiet, stayed, notified,
              regStamp>>
vars == <<variant, now, readyState, out, handled, frames, singleVars, multiVars, histVars>>

\* ------------------------------------------------------------- helpers
Range(s) == {s[i] : i \in 1 .. Len(s)}
Without(s, x) == SelectSeq(s, LAMBDA e : e # x)
Ids(m) == {m[i].id : i \in 1 .. Len(m)}
WithoutId(m, id) == SelectSeq(m, LAMBDA e : e.id # id)
IndexOfId(m, id) == CHOOSE i \in 1 .. Len(m) : m[i].id = id
\* Map.prototype.set: an existing key keeps its place, a new key goes last.
MapSet(m, rec) ==
    IF rec.id \in Ids(m)
    THEN [m EXCEPT ![IndexOfId(m, rec.id)] = rec]
    ELSE Append(m, rec)

Event(ev, ws, m) ==
    [ev |-> ev, ws |-> ws, type |-> m.type, client |-> m.client,
     androidId |-> m.androidId, browserId |-> m.browserId]
NoEnv == Env("", "", 0, 0, 0)
\* Steps no claim observes (connect, tick, probe, pong) leave this event.
Quiet == Event("", Null, NoEnv)

\* ws.close(): OPEN becomes CLOSING, otherwise nothing changes.
CloseHandle(rs, ws) == IF rs[ws] = "OPEN" THEN [rs EXCEPT ![ws] = "CLOSING"] ELSE rs


\* =====================================================================
\* Single-Source server (src/server.js lines 1-399)
\* =====================================================================
\* The mutable state a handler of the single-Source server works on.
Single ==
    [ac |-> androidClient, bc |-> browserClients, pi |-> pingIntervals,
     ts |-> connectionTimestamps, tt |-> timeoutTimer, rs |-> readyState,
     out |-> <<>>, err |-> errorCount]

\* A stopPingInterval that leaves the connection's timestamp in place.
stopPingIntervalKeepTimestamp(S, ws) == [S EXCEPT !.pi[ws] = NoTimer]

stopPingInterval(S, ws) ==
    [S EXCEPT !.pi[ws] = NoTimer, !.ts[ws] = Absent]

startPingInterval(S, ws) ==
    LET S1 == stopPingInterval(S, ws)
    IN  [S1 EXCEPT !.pi[ws] = now + PING_INTERVAL, !.ts[ws] = now]

clearTimeout(S, ws) == [S EXCEPT !.tt[ws] = NoTimer]

\* ws.send throws only on a CONNECTING socket; a server-side socket never is.
SendThrows(rs, c) == rs[c] = "CONNECTING"

\* The send calls of broadcastToBrowsers: one per client whose handle is OPEN,
\* in Map order; a client that is not OPEN is skipped.
BroadcastSends(bc, rs, msg) ==
    LET open == SelectSeq(bc, LAMBDA c : rs[c] = "OPEN")
    IN  [i \in 1 .. Len(open) |-> Send(open[i], rs, msg)]

\* A tally that also counts the clients skipped because they are not OPEN.
BroadcastErrorCountSkipped(bc, rs) ==
    Cardinality({i \in 1 .. Len(bc) : rs[bc[i]] # "OPEN" \/ SendThrows(rs, bc[i])})

\* errorCount of broadcastToBrowsers: the sends that threw.
BroadcastErrorCount(bc, rs) ==
    Cardinality({i \in 1 .. Len(bc) : rs[bc[i]] = "OPEN" /\ SendThrows(rs, bc[i])})

broadcastToBrowsers(S, msg) ==
    [S EXCEPT !.out = S.out \o BroadcastSends(S.bc, S.rs, msg),
              !.err = BroadcastErrorCount(S.bc, S.rs)]

\* A send that puts the envelope on the wire twice.
sendTwice(S, to, msg) ==
    [S EXCEPT !.out = S.out \o <<Send(to, S.rs, msg), Send(to, S.rs, msg)>>]

send(S, to, msg) == [S EXCEPT !.out = Append(S.out, Send(to, S.rs, msg))]

\* A registration that leaves the previous Android connection as it is.
RegisterAndroid1KeepPrevious(S, ws) ==
    LET S2 == startPingInterval([S EXCEPT !.ac = ws], ws)
    IN  broadcastToBrowsers(S2, Env("android-connected", "", 0, 0, ws))

\* client-type 'android'
RegisterAndroid1(S, ws) ==
    LET S1 == IF S.ac # Null /\ S.ac # ws
              THEN [clearTimeout(stopPingInterval(S, S.ac), S.ac)
                        EXCEPT !.rs = CloseHandle(S.rs, S.ac)]
              ELSE S
        S2 == startPingInterval([S1 EXCEPT !.ac = ws], ws)
    IN  broadcastToBrowsers(S2, Env("android-connected", "", 0, 0, ws))

\* client-type 'browser'
RegisterBrowser1(S, ws) ==
    LET S1 == [S EXCEPT !.bc = IF ws \in Range(S.bc) THEN S.bc ELSE Append(S.bc, ws)]
        S2 == startPingInterval(S1, ws)
    IN  IF S2.ac # Null /\ S2.rs[S2.ac] = "OPEN"
        THEN send(S2, S2.ac, Env("request-offer", "", 0, ws, 0))
        ELSE send(S2, ws, Env("android-status", "", 0, 0, 0))

\* Relay of signaling messages
Relay1(S, ws, m) ==
    IF ws = S.ac
    THEN broadcastToBrowsers(S, m)
    ELSE IF ws \in Range(S.bc)
         THEN IF S.ac # Null /\ S.rs[S.ac] = "OPEN"
              THEN send(S, S.ac, m)
              ELSE send(S, ws, Env("error", "", 0, 0, 0))
         ELSE S

\* ws.on('message')
OnMessage1(S0, ws, m) ==
    LET S == [S0 EXCEPT !.ts[ws] = now]
    IN  CASE m.type = "BAD" -> send(S, ws, Env("error", "", 0, 0, 0))
          [] m.type = "ping" -> send(S, ws, Env("pong", "", 0, 0, 0))
          [] m.type = "pong" -> S
          [] m.type = "client-type" ->
                 CASE m.client = "android" -> RegisterAndroid1(S, ws)
                   [] m.client = "browser" -> RegisterBrowser1(S, ws)
                   [] OTHER -> S
          [] m.type \in {"camera-status", "camera-error"} -> broadcastToBrowsers(S, m)
          [] OTHER -> Relay1(S, ws, m)

\* A close handler that takes every closing connection for the Android one.
OnClose1Unguarded(S0, ws) ==
    LET S1 == clearTimeout(stopPingInterval([S0 EXCEPT !.rs[ws] = "CLOSED"], ws), ws)
        S2 == broadcastToBrowsers([S1 EXCEPT !.ac = Null],
                                  Env("android-disconnected", "", 0, 0, 0))
    IN  [S2 EXCEPT !.bc = Without(S2.bc, ws)]

\* ws.on('close'); the socket is CLOSED when the event is emitted.
OnClose1(S0, ws) ==
    LET S1 == clearTimeout(stopPingInterval([S0 EXCEPT !.rs[ws] = "CLOSED"], ws), ws)
        S2 == IF ws = S1.ac
              THEN broadcastToBrowsers([S1 EXCEPT !.ac = Null],
                                       Env("android-disconnected", "", 0, 0, 0))
              ELSE S1
    IN  [S2 EXCEPT !.bc = Without(S2.bc, ws)]

\* ws.on('error'); the library has begun closing the socket.
OnError1(S0, ws) ==
    clearTimeout(stopPingInterval([S0 EXCEPT !.rs = CloseHandle(S0.rs, ws)], ws), ws)

\* The cleanup setInterval: the browser pass, then the Android check.
CleanupBrowsers(S) ==
    LET dead == {c \in Range(S.bc) : S.rs[c] # "OPEN"}
        idle == {c \in Range(S.bc) : /\ S.rs[c] = "OPEN"
                                     /\ S.ts[c] # Absent
                                     /\ now - S.ts[c] > CONNECTION_TIMEOUT}
    IN  [S EXCEPT !.bc = SelectSeq(S.bc, LAMBDA c : c \notin dead),
                  !.pi = [c \in Conns |-> IF c \in dead THEN NoTimer ELSE S.pi[c]],
                  !.ts = [c \in Conns |-> IF c \in dead THEN Absent ELSE S.ts[c]],
                  !.tt = [c \in Conns |-> IF c \in dead THEN NoTimer ELSE S.tt[c]],
                  !.rs = [c \in Conns |-> IF c \in idle THEN "CLOSING" ELSE S.rs[c]]]

CleanupAndroid(S) ==
    IF S.ac # Null /\ S.rs[S.ac] # "OPEN"
    THEN [clearTimeout(stopPingInterval(S, S.ac), S.ac) EXCEPT !.ac = Null]
    ELSE IF /\ S.ac # Null
            /\ S.ts[S.ac] # Absent
            /\ now - S.ts[S.ac] > CONNECTION_TIMEOUT
         THEN [S EXCEPT !.rs = CloseHandle(S.rs, S.ac)]
         ELSE S

Cleanup(S) == CleanupAndroid(CleanupBrowsers(S))

\* The state S becomes the next state of the single-Source server.
Commit1(S) ==
    /\ androidClient' = S.ac
    /\ browserClients' = S.bc
    /\ pingIntervals' = S.pi
    /\ connectionTimestamps' = S.ts
    /\ timeoutTimer' = S.tt
    /\ readyState' = S.rs
    /\ out' = S.out
    /\ errorCount' = S.err
    /\ UNCHANGED <<variant, multiVars>>

IsSingle == variant = "single"
IsMulti == variant = "multi"
Live(c) == readyState[c] \in {"OPEN", "CLOSING"}

Message1(c, m) ==
    /\ IsSingle /\ Live(c)
    /\ Commit1(OnMessage1(Single, c, m))
    /\ handled' = Event("message", c, m)
    /\ UNCHANGED <<now, nextCleanup>>

\* ws.on('pong')
Pong1(c) ==
    /\ IsSingle /\ Live(c)
    /\ Commit1([Single EXCEPT !.ts[c] = now])
    /\ handled' = Quiet
    /\ UNCHANGED <<now, nextCleanup>>

Close1(c) ==
    /\ IsSingle /\ Live(c)
    /\ Commit1(OnClose1(Single, c))
    /\ handled' = Event("close", c, NoEnv)
    /\ UNCHANGED <<now, nextCleanup>>

Error1(c) ==
    /\ IsSingle /\ Live(c)
    /\ Commit1(OnError1(Single, c))
    /\ handled' = Event("error", c, NoEnv)
    /\ UNCHANGED <<now, nextCleanup>>

\* The setInterval callback of startPingInterval.
PingTimer(c) ==
    /\ IsSingle
    /\ pingIntervals[c] # NoTimer /\ pingIntervals[c] <= now
    /\ pingIntervals' = [pingIntervals EXCEPT ![c] =
            IF readyState[c] = "OPEN" THEN now + PING_INTERVAL ELSE NoTimer]
    /\ out' = <<>>
    /\ handled' = Quiet
    /\ UNCHANGED <<variant, now, readyState, androidClient, browserClients,
                   connectionTimestamps, timeoutTimer, nextCleanup, errorCount,
                   multiVars>>

\* The setTimeout callback of setupConnectionTimeout.
TimeoutTimer(c) ==
    /\ IsSingle
    /\ timeoutTimer[c] # NoTimer /\ timeoutTimer[c] <= now
    /\ timeoutTimer' = [timeoutTimer EXCEPT ![c] = NoTimer]
    /\ readyState' = CloseHandle(readyState, c)
    /\ out' = <<>>
    /\ handled' = Event("timeout-timer", c, NoEnv)
    /\ UNCHANGED <<variant, now, androidClient, browserClients,
                   pingIntervals, connectionTimestamps, nextCleanup, errorCount,
                   multiVars>>

CleanupTimer ==
    /\ IsSingle
    /\ nextCleanup <= now
    /\ Commit1(Cleanup(Single))
    /\ nextCleanup' = now + CLEANUP_INTERVAL
    /\ handled' = Event("cleanup", Null, NoEnv)
    /\ UNCHANGED now


\* =====================================================================
\* Multi-Source server (src/server.js lines 400-675)
\* =====================================================================
\* The mutable state a handler of the multi-Source server works on.
Multi ==
    [as |-> androidClients, bs |-> renderBrowserClients,
     rs |-> readyState, out |-> <<>>]

\* broadcastToBrowsers of the multi-Source server.
RenderBroadcastSends(bs, rs, msg) ==
    LET open == SelectSeq(bs, LAMBDA b : rs[b.id] = "OPEN")
    IN  [i \in 1 .. Len(open) |-> Send(open[i].id, rs, msg)]

renderBroadcastToBrowsers(M, msg) ==
    [M EXCEPT !.out = M.out \o RenderBroadcastSends(M.bs, M.rs, msg)]

cleanupAndroidClient(M, clientId) ==
    renderBroadcastToBrowsers([M EXCEPT !.as = WithoutId(M.as, clientId)],
                              Env("android-disconnected", "", clientId, 0, 0))

cleanupBrowserClient(M, clientId) ==
    [M EXCEPT !.bs = WithoutId(M.bs, clientId)]

\* The last entry in Map order.
LastAndroid(as) == IF Len(as) = 0 THEN Null ELSE as[Len(as)].id

\* androidClients.values().next().value: the first entry in Map order.
FirstAndroid(as) == IF Len(as) = 0 THEN Null ELSE as[1].id

SendIfOpen(M, to, msg) ==
    IF to # Null /\ M.rs[to] = "OPEN"
    THEN [M EXCEPT !.out = Append(M.out, Send(to, M.rs, msg))]
    ELSE M

\* client-type 'android'
RegisterAndroid2(M, ws) ==
    LET M1 == [M EXCEPT !.as = MapSet(M.as, [id |-> ws, lastSeen |-> now])]
        M2 == renderBroadcastToBrowsers(M1, Env("android-connected", "", ws, 0, 0))
    IN  [M2 EXCEPT !.out = Append(M2.out, Send(ws, M2.rs, Env("welcome", "", 0, 0, ws)))]

\* client-type 'browser'
RegisterBrowser2(M, ws, m) ==
    LET browserId == IF m.browserId # 0 THEN m.browserId ELSE ws
        M1 == [M EXCEPT !.bs = MapSet(M.bs, [id |-> ws, browserId |-> browserId,
                                              lastSeen |-> now])]
    IN  IF Len(M1.as) > 0
        THEN SendIfOpen(
                 [M1 EXCEPT !.out = Append(M1.out,
                      Send(ws, M1.rs, Env("android-available", "", 0, 0, Len(M1.as))))],
                 FirstAndroid(M1.as),
                 Env("request-offer", "", 0, browserId, 0))
        ELSE M1

\* Android -> Browsers
RelayAndroid2(M, ws, m) ==
    LET i == IndexOfId(M.as, ws)
    IN  renderBroadcastToBrowsers([M EXCEPT !.as[i].lastSeen = now],
                                  [m EXCEPT !.androidId = ws])

\* The Source a Browser envelope goes to: the named one when it is
\* registered, else the first one.
RelayTarget(as, m) ==
    IF m.androidId # 0 /\ m.androidId \in Ids(as) THEN m.androidId ELSE FirstAndroid(as)

\* Browser -> Android
RelayBrowser2(M, ws, m) ==
    LET i == IndexOfId(M.bs, ws)
        M1 == [M EXCEPT !.bs[i].lastSeen = now]
    IN  SendIfOpen(M1, RelayTarget(M1.as, m), [m EXCEPT !.browserId = M.bs[i].browserId])

\* ws.on('message')
OnMessage2(M, ws, m) ==
    CASE m.type = "BAD" -> M
      [] m.type = "ping" -> [M EXCEPT !.out = Append(M.out, Send(ws, M.rs, Env("pong", "", 0, 0, 0)))]
      [] m.type = "pong" -> M
      [] m.type = "client-type" ->
             CASE m.client = "android" -> RegisterAndroid2(M, ws)
               [] m.client = "browser" -> RegisterBrowser2(M, ws, m)
               [] OTHER -> M
      [] OTHER ->
             IF ws \in Ids(M.as) THEN RelayAndroid2(M, ws, m)
             ELSE IF ws \in Ids(M.bs) THEN RelayBrowser2(M, ws, m)
             ELSE M

\* A close handler that calls the cleanups without looking the id up.
OnClose2Unguarded(M0, ws) ==
    cleanupBrowserClient(cleanupAndroidClient([M0 EXCEPT !.rs[ws] = "CLOSED"], ws), ws)

\* ws.on('close'); the socket is CLOSED when the event is emitted.
OnClose2(M0, ws) ==
    LET M == [M0 EXCEPT !.rs[ws] = "CLOSED"]
        M1 == IF ws \in Ids(M.as) THEN cleanupAndroidClient(M, ws) ELSE M
    IN  IF ws \in Ids(M1.bs) THEN cleanupBrowserClient(M1, ws) ELSE M1

\* cleanupAndroidClient for each id of the sequence, in order.
RECURSIVE CleanupAndroids(_, _)
CleanupAndroids(M, ids) ==
    IF Len(ids) = 0 THEN M
    ELSE CleanupAndroids(cleanupAndroidClient(M, Head(ids)), Tail(ids))

IdSeq(m) == [i \in 1 .. Len(m) |-> m[i].id]

\* The keepalive setInterval: ping the open handles, clean up the others.
Keepalive(M) ==
    LET deadA == SelectSeq(IdSeq(M.as), LAMBDA c : M.rs[c] # "OPEN")
        M1 == CleanupAndroids(M, deadA)
    IN  [M1 EXCEPT !.bs = SelectSeq(M1.bs, LAMBDA b : M.rs[b.id] = "OPEN")]

\* The Sources the stale-cleanup pass finds timed out, in Map order.
StaleAndroids(as) ==
    SelectSeq(IdSeq(as),
              LAMBDA c : now - as[IndexOfId(as, c)].lastSeen > CLIENT_TIMEOUT)

\* The stale-cleanup setInterval.
Stale(M) == CleanupAndroids(M, StaleAndroids(M.as))

Commit2(M) ==
    /\ androidClients' = M.as
    /\ renderBrowserClients' = M.bs
    /\ readyState' = M.rs
    /\ out' = M.out
    /\ UNCHANGED <<variant, singleVars>>


\* =====================================================================
\* The registry as the two role collections, and the history
\* =====================================================================
Sources == IF IsSingle THEN {androidClient} \ {Null} ELSE Ids(androidClients)
Viewers == IF IsSingle THEN Range(browserClients) ELSE Ids(renderBrowserClients)
Role(c) == IF c \in Sources THEN "source" ELSE IF c \in Viewers THEN "viewer" ELSE ""

\* android-disconnected events about Source s delivered to v by the send
\* calls o.  The single-Source server's event names no Source: it is about
\* the connection whose close event is handled.
DiscCount(o, s, v, ev) ==
    Cardinality({i \in 1 .. Len(o) :
        /\ o[i].to = v /\ o[i].ok
        /\ o[i].msg.type = "android-disconnected"
        /\ IF IsSingle THEN ev.ev = "close" /\ ev.ws = s
                       ELSE o[i].msg.androidId = s})

\* =====================================================================
\* Actions
\* =====================================================================
\* wss.on('connection').  Connections are numbered in the order they arrive.
ConnectCore(c) ==
    /\ readyState[c] = "NONE"
    /\ IF c = 1 THEN TRUE ELSE readyState[c - 1] # "NONE"
    /\ now <= MaxConnectTime
    /\ readyState' = [readyState EXCEPT ![c] = "OPEN"]
    /\ timeoutTimer' = IF IsSingle
                       THEN [timeoutTimer EXCEPT ![c] = now + CONNECTION_TIMEOUT]
                       ELSE timeoutTimer
    /\ out' = <<>>
    /\ handled' = Quiet
    /\ UNCHANGED <<variant, now, androidClient, browserClients,
                   pingIntervals, connectionTimestamps, nextCleanup, errorCount,
                   multiVars>>

\* The peer starts the closing handshake: the socket is CLOSING until its
\* close event.
PeerCloseCore(c) ==
    /\ readyState[c] = "OPEN"
    /\ readyState' = [readyState EXCEPT ![c] = "CLOSING"]
    /\ out' = <<>>
    /\ handled' = Quiet
    /\ UNCHANGED <<variant, now, singleVars, multiVars>>

TimerDue ==
    IF IsSingle
    THEN \/ nextCleanup <= now
         \/ \E c \in Conns : pingIntervals[c] # NoTimer /\ pingIntervals[c] <= now
         \/ \E c \in Conns : timeoutTimer[c] # NoTimer /\ timeoutTimer[c] <= now
    ELSE nextKeepalive <= now \/ nextStale <= now

TickCore ==
    /\ now < MaxTime
    /\ ~TimerDue
    /\ now' = now + 1
    /\ out' = <<>>
    /\ handled' = Quiet
    /\ UNCHANGED <<variant, readyState, singleVars, multiVars>>

Message2(c, m) ==
    /\ IsMulti /\ Live(c)
    /\ Commit2(OnMessage2(Multi, c, m))
    /\ handled' = Event("message", c, m)
    /\ UNCHANGED <<now, nextKeepalive, nextStale>>

\* ws.on('pong'): sets the handler's lastPong, which nothing reads.
Pong2(c) ==
    /\ IsMulti /\ Live(c)
    /\ Commit2(Multi)
    /\ handled' = Quiet
    /\ UNCHANGED <<now, nextKeepalive, nextStale>>

Close2(c) ==
    /\ IsMulti /\ Live(c)
    /\ Commit2(OnClose2(Multi, c))
    /\ handled' = Event("close", c, NoEnv)
    /\ UNCHANGED <<now, nextKeepalive, nextStale>>

\* ws.on('error') only logs; the library has begun closing the socket.
Error2(c) ==
    /\ IsMulti /\ Live(c)
    /\ Commit2([Multi EXCEPT !.rs = CloseHandle(Multi.rs, c)])
    /\ handled' = Event("error", c, NoEnv)
    /\ UNCHANGED <<now, nextKeepalive, nextStale>>

KeepaliveTimer ==
    /\ IsMulti
    /\ nextKeepalive <= now
    /\ Commit2(Keepalive(Multi))
    /\ nextKeepalive' = now + RENDER_PING_INTERVAL
    /\ handled' = Event("keepalive", Null, NoEnv)
    /\ UNCHANGED <<now, nextStale>>

StaleTimer ==
    /\ IsMulti
    /\ nextStale <= now
    /\ Commit2(Stale(Multi))
    /\ nextStale' = now + STALE_INTERVAL
    /\ handled' = Event("stale", Null, NoEnv)
    /\ UNCHANGED <<now, nextKeepalive>>

Init ==
    /\ variant \in {"single", "multi"}
    /\ now = 0
    /\ readyState = [c \in Conns |-> "NONE"]
    /\ out = <<>>
    /\ handled = Quiet
    /\ frames = 0
    /\ androidClient = Null
    /\ browserClients = <<>>
    /\ pingIntervals = [c \in Conns |-> NoTimer]
    /\ connectionTimestamps = [c \in Conns |-> Absent]
    /\ timeoutTimer = [c \in Conns |-> NoTimer]
    /\ nextCleanup = CLEANUP_INTERVAL
    /\ errorCount = 0
    /\ androidClients = <<>>
    /\ renderBrowserClients = <<>>
    /\ nextKeepalive = RENDER_PING_INTERVAL
    /\ nextStale = STALE_INTERVAL
    /\ pingPending = [c \in Conns |-> FALSE]
    /\ missed = [c \in Conns |-> FALSE]
    /\ timedOut = [c \in Conns |-> ""]
    /\ replaced = [c \in Conns |-> FALSE]
    /\ quiet = [c \in Conns |-> FALSE]
    /\ stayed = [c \in Conns |-> {}]
    /\ notified = [c \in Conns |-> [v \in Conns |-> 0]]
    /\ regStamp = [c \in Conns |-> 0]

\* ---------------------------------------------------------------------
\* Spec: both servers, every frame, every timer, RouterConns connections;
\* the history is not kept.
\* ---------------------------------------------------------------------
\* A frame arrives: within the budget, and no later than MaxFrameTime.
Framed == frames < MaxFrames /\ now <= MaxFrameTime /\ frames' = frames + 1
Plain == UNCHANGED <<frames, histVars>>

Connect(c) == ConnectCore(c) /\ Plain
PeerClose(c) == PeerCloseCore(c) /\ Plain
Tick == TickCore /\ Plain
SingleMessage(c, m) == Framed /\ Message1(c, m) /\ UNCHANGED histVars
SinglePong(c) == Framed /\ Pong1(c) /\ UNCHANGED histVars
SingleClose(c) == Close1(c) /\ Plain
SingleError(c) == Error1(c) /\ Plain
SinglePingTimer(c) == PingTimer(c) /\ Plain
SingleTimeoutTimer(c) == TimeoutTimer(c) /\ Plain
SingleCleanup == CleanupTimer /\ Plain
MultiMessage(c, m) == Framed /\ Message2(c, m) /\ UNCHANGED histVars
MultiPong(c) == Framed /\ Pong2(c) /\ UNCHANGED histVars
MultiClose(c) == Close2(c) /\ Plain
MultiError(c) == Error2(c) /\ Plain
MultiKeepalive == KeepaliveTimer /\ Plain
MultiStale == StaleTimer /\ Plain

NextSingle(K) ==
    \/ \E c \in 1 .. K : \E m \in Frames1 : SingleMessage(c, m)
    \/ \E c \in 1 .. K : SinglePong(c)
    \/ \E c \in 1 .. K : SingleClose(c)
    \/ \E c \in 1 .. K : SingleError(c)
    \/ \E c \in 1 .. K : SinglePingTimer(c)
    \/ \E c \in 1 .. K : SingleTimeoutTimer(c)
    \/ SingleCleanup

NextMulti(K) ==
    \/ \E c \in 1 .. K : \E m \in Frames2(c) : MultiMessage(c, m)
    \/ \E c \in 1 .. K : MultiPong(c)
    \/ \E c \in 1 .. K : MultiClose(c)
    \/ \E c \in 1 .. K : MultiError(c)
    \/ MultiKeepalive
    \/ MultiStale

NextNet(K) ==
    \/ \E c \in 1 .. K : Connect(c)
    \/ \E c \in 1 .. K : PeerClose(c)
    \/ Tick

Next == NextNet(RouterConns) \/ NextSingle(RouterConns) \/ NextMulti(RouterConns)

Spec == Init /\ [][Next]_vars

\* ---------------------------------------------------------------------
\* SpecMulti: the multi-Source server with MaxConns connections and the
\* frames that register and relay; each entry into androidClients is
\* ranked in regStamp.
\* ---------------------------------------------------------------------
RelayFrames2(c) ==
    {Env("client-type", "android", 0, 0, 0), Env("client-type", "browser", 0, 0, 0),
     Env("offer", "", 0, 0, 0)}

MaxStamp == CHOOSE n \in {regStamp[c] : c \in Conns} : \A c \in Conns : regStamp[c] <= n

\* A connection that enters androidClients (it was not in the Map) takes the
\* next rank.
Stamp(c, m) ==
    /\ regStamp' = IF /\ m.type = "client-type" /\ m.client = "android"
                      /\ c \notin Ids(androidClients)
                   THEN [regStamp EXCEPT ![c] = MaxStamp + 1]
                   ELSE regStamp
    /\ UNCHANGED <<pingPending, missed, timedOut, replaced, quiet, stayed, notified>>

RankedMessage(c, m) == Framed /\ Message2(c, m) /\ Stamp(c, m)

NextM ==
    \/ NextNet(MaxConns)
    \/ \E c \in Conns : \E m \in RelayFrames2(c) : RankedMessage(c, m)
    \/ \E c \in Conns : MultiPong(c)
    \/ \E c \in Conns : MultiClose(c)
    \/ \E c \in Conns : MultiError(c)
    \/ MultiKeepalive
    \/ MultiStale

InitMulti == Init /\ IsMulti

SpecMulti == InitMulti /\ [][NextM]_vars

\* ---------------------------------------------------------------------
\* SpecSingleTimed: the single-Source server with RouterConns connections
\* that register, are probed and answer or not; the history is kept.
\* ---------------------------------------------------------------------
RegisterFrames1 ==
    {Env("client-type", "android", 0, 0, 0), Env("client-type", "browser", 0, 0, 0)}

Min(a, b) == IF a < b THEN a ELSE b

\* History update of a step.  tick: time advanced; timed: the connections the
\* timeout machinery closed or evicted; spoke: the connections a frame or a
\* pong came from; pinged, ponged: the connections probed, and answering.
Hist(tick, timed, spoke, pinged, ponged) ==
    LET ev == handled'
        regA == ev.ev = "message" /\ ev.type = "client-type" /\ ev.client = "android"
        regB == ev.ev = "message" /\ ev.type = "client-type" /\ ev.client = "browser"
        openViewers == {v \in Viewers' : readyState'[v] = "OPEN"}
    IN  /\ pingPending' = [c \in Conns |->
              /\ pingPending[c] \/ c \in pinged
              /\ c \notin ponged
              /\ readyState'[c] # "CLOSED"]
        /\ missed' = [c \in Conns |-> missed[c] \/ (tick /\ pingPending[c])]
        /\ timedOut' = [c \in Conns |->
              IF c \in timed /\ Role(c) # "" THEN Role(c)
              ELSE IF (regA \/ regB) /\ ev.ws = c THEN ""
              ELSE timedOut[c]]
        /\ replaced' = [c \in Conns |->
              IF regA /\ ev.ws = c THEN FALSE
              ELSE IF regA /\ IsSingle /\ androidClient = c THEN TRUE
              ELSE replaced[c]]
        /\ quiet' = [c \in Conns |->
              IF regA /\ ev.ws = c THEN TRUE
              ELSE IF c \in spoke THEN FALSE
              ELSE quiet[c]]
        /\ stayed' = [c \in Conns |->
              IF regA /\ ev.ws = c THEN openViewers
              ELSE stayed[c] \cap openViewers]
        /\ notified' = [c \in Conns |-> [v \in Conns |->
              IF regA /\ ev.ws = c THEN 0
              ELSE Min(2, notified[c][v] + DiscCount(out', c, v, ev))]]
        /\ UNCHANGED regStamp

TimedConnect(c) == ConnectCore(c) /\ UNCHANGED frames /\ Hist(FALSE, {}, {}, {}, {})
TimedPeerClose(c) == PeerCloseCore(c) /\ UNCHANGED frames /\ Hist(FALSE, {}, {}, {}, {})
TimedTick == TickCore /\ UNCHANGED frames /\ Hist(TRUE, {}, {}, {}, {})
\* A connection registers once, in the time unit it connects in.
TimedMessage(c, m) ==
    /\ now <= MaxConnectTime /\ Role(c) = ""
    /\ Framed /\ Message1(c, m) /\ Hist(FALSE, {}, {c}, {}, {})
\* The peer answers a probe it was sent.
TimedPong(c) ==
    pingPending[c] /\ Pong1(c) /\ UNCHANGED frames /\ Hist(FALSE, {}, {c}, {}, {c})
TimedClose(c) == Close1(c) /\ UNCHANGED frames /\ Hist(FALSE, {}, {}, {}, {})
TimedError(c) == Error1(c) /\ UNCHANGED frames /\ Hist(FALSE, {}, {}, {}, {})
TimedPingTimer(c) ==
    /\ PingTimer(c) /\ UNCHANGED frames
    /\ Hist(FALSE, {}, {}, IF readyState[c] = "OPEN" THEN {c} ELSE {}, {})
TimedTimeoutTimer(c) ==
    /\ TimeoutTimer(c) /\ UNCHANGED frames
    /\ Hist(FALSE, IF readyState[c] = "OPEN" THEN {c} ELSE {}, {}, {}, {})
TimedCleanup ==
    /\ CleanupTimer /\ UNCHANGED frames
    /\ Hist(FALSE, {c \in Conns : readyState[c] = "OPEN" /\ readyState'[c] = "CLOSING"},
            {}, {}, {})

NextT ==
    \/ \E c \in 1 .. RouterConns : TimedConnect(c)
    \/ \E c \in 1 .. RouterConns : TimedPeerClose(c)
    \/ TimedTick
    \/ \E c \in 1 .. RouterConns : \E m \in RegisterFrames1 : TimedMessage(c, m)
    \/ \E c \in 1 .. RouterConns : TimedPong(c)
    \/ \E c \in 1 .. RouterConns : TimedClose(c)
    \/ \E c \in 1 .. RouterConns : TimedError(c)
    \/ \E c \in 1 .. RouterConns : TimedPingTimer(c)
    \/ \E c \in 1 .. RouterConns : TimedTimeoutTimer(c)
    \/ TimedCleanup

InitSingle == Init /\ IsSingle

SpecSingleTimed == InitSingle /\ [][NextT]_vars


\* =====================================================================
\* Properties
\* =====================================================================
IsMessage == handled.ev = "message"
Sender == handled.ws
\* The send calls of the last step made on handle c with an envelope of type t.
Calls(c, t) == {i \in 1 .. Len(out) : out[i].to = c /\ out[i].msg.type = t}
\* The envelopes of type t the last step delivered to c.
Deliveries(c, t) == Cardinality({i \in Calls(c, t) : out[i].ok})

\* ------------------------------------------------------------------ C1
\* C1: in every reachable state no connection is registered both as a
\* Source and as a Viewer.
C1_RolesDisjoint == Sources \cap Viewers = {}

\* ------------------------------------------------------------------ C4
\* C4: an open connection that registers as a Viewer while no Source is
\* registered is sent android-status (disconnected), and no request-offer
\* is sent to anybody.
C4_LoneViewerToldDisconnected ==
    (/\ IsMessage /\ handled.type = "client-type" /\ handled.client = "browser"
     /\ readyState[Sender] = "OPEN" /\ Sources = {})
    => /\ Calls(Sender, "android-status") # {}
       /\ \A c \in Conns : Calls(c, "request-offer") = {}

\* ------------------------------------------------------------------ C5
\* The Source an envelope of the Viewer that sent the last frame is routed to.
SelectedSource ==
    IF IsSingle THEN androidClient ELSE RelayTarget(androidClients, handled)

\* C5: a signaling envelope from an open registered Viewer that finds no
\* Source available (none registered, or the selected one not OPEN) is
\* answered with an error envelope to that Viewer.
C5_UnroutableEnvelopeAnswered ==
    (/\ IsMessage /\ handled.type = "offer"
     /\ Sender \in Viewers \ Sources /\ readyState[Sender] = "OPEN"
     /\ (SelectedSource = Null \/ readyState[SelectedSource] # "OPEN"))
    => Calls(Sender, "error") # {}

\* ----------------------------------------------------------------- C10
\* C10: an envelope other than client-type, ping and pong that comes from a
\* connection registered in neither role is delivered to no other
\* connection and leaves the sender unregistered.
C10_UnidentifiedDropped ==
    (/\ IsMessage /\ handled.type \in OpaqueTypes
     /\ Sender \notin Sources \cup Viewers)
    => \A i \in 1 .. Len(out) : out[i].to = Sender

\* ------------------------------------------------------------------ C6
\* The last step broadcast the envelope it received to the Viewers.
Broadcasting ==
    /\ IsMessage /\ handled.type \in OpaqueTypes
    /\ IF IsSingle THEN handled.type # "offer" \/ Sender = androidClient
       ELSE Sender \in Sources
\* Two or more Viewers are registered and exactly one has a handle that is
\* not OPEN.
OneNotOpen ==
    /\ Cardinality(Viewers) >= 2
    /\ Cardinality({v \in Viewers : readyState[v] # "OPEN"}) = 1

Oldest == CHOOSE s \in Sources : \A t \in Sources : regStamp[s] <= regStamp[t]
\* The last step routed to the default Source: a Viewer registration, or a
\* Viewer envelope that names no registered Source.
DefaultRouted ==
    /\ IsMessage
    /\ \/ handled.type = "client-type" /\ handled.client = "browser"
       \/ /\ handled.type = "offer" /\ Sender \in Viewers \ Sources
          /\ handled.androidId \notin Sources
RoutedCalls == {i \in 1 .. Len(out) : out[i].msg.type \in {"request-offer", "offer"}}

\* C7: on the multi-Source server a default-routed request-offer or Viewer
\* envelope goes to the oldest surviving registration, and to no other
\* connection.
C7_DefaultIsOldest ==
    (IsMulti /\ DefaultRouted /\ Sources # {})
    => /\ \A i \in RoutedCalls : out[i].to = Oldest
       /\ readyState[Oldest] = "OPEN" => \E i \in RoutedCalls : out[i].to = Oldest

\* A request-offer went to the oldest of two Sources after an older
\* registration had been removed.
C7_Witness ==
    /\ IsMulti /\ DefaultRouted /\ Cardinality(Sources) >= 2
    /\ Calls(Oldest, "request-offer") # {}
    /\ \E c \in Conns \ Sources : regStamp[c] > 0 /\ regStamp[c] < regStamp[Oldest]

\* ------------------------------------------------------------------ C8
\* C8: handling a ping envelope makes exactly one send call, a pong on the
\* sender's handle, and leaves the membership of both roles as it was.
C8_PingAnsweredOnce ==
    [][(handled'.ev = "message" /\ handled'.type = "ping")
       => /\ Len(out') = 1
          /\ out'[1].to = handled'.ws /\ out'[1].msg.type = "pong"
          /\ Sources' = Sources /\ Viewers' = Viewers
          /\ androidClients' = androidClients
          /\ renderBrowserClients' = renderBrowserClients]_vars

\* A registered Viewer, with a Source registered too, was answered a pong.
C8_Witness ==
    /\ IsMessage /\ handled.type = "ping"
    /\ Sender \in Viewers /\ Sources \ {Sender} # {}
    /\ Deliveries(Sender, "pong") = 1

C2_SilentSourceAnnouncedOnce ==
    \A s \in Conns : \A v \in Conns :
        (/\ quiet[s] /\ timedOut[s] = "source" /\ ~replaced[s]
         /\ s \notin Sources /\ readyState[s] = "CLOSED"
         /\ v \in stayed[s])
        => notified[s][v] = 1

\* ------------------------------------------------------------------ C3
\* C3: the timeout machinery closes or evicts a registered connection only
\* if that connection let a time unit pass with a probe unanswered.
C3_ResponsiveNeverTimedOut ==
    \A c \in Conns : timedOut[c] # "" => missed[c]

\* ----------------------------------------------------------------- C12
RegistersAs(role) ==
    IsMessage /\ handled.type = "client-type" /\ handled.client = role

\* C12: when an open connection registers as Source, every Viewer with an
\* open handle is delivered one android-connected and the new Source is sent
\* a welcome envelope that carries its identity.
C12_SourceRegistrationAnnounced ==
    (RegistersAs("android") /\ readyState[Sender] = "OPEN")
    => /\ \A v \in Viewers :
              readyState[v] = "OPEN" => Deliveries(v, "android-connected") = 1
       /\ \E i \in Calls(Sender, "welcome") : out[i].msg.info = Sender

\* ----------------------------------------------------------------- C13
\* The Source a Viewer registration asks for an offer.
DefaultSource == IF IsSingle THEN androidClient ELSE FirstAndroid(androidClients)
\* The tag the registering Viewer goes by.
ViewerTag == IF handled.browserId # 0 THEN handled.browserId ELSE Sender

\* C13: when an open connection that is no Source registers as Viewer while
\* a Source is registered (and the selected one is open), the Viewer is sent
\* android-available with the number of Sources, and exactly one
\* request-offer is sent: to the selected Source, with the Viewer's tag.
C13_ViewerRegistrationWithSource ==
    (/\ RegistersAs("browser") /\ readyState[Sender] = "OPEN"
     /\ Sender \notin Sources
     /\ Sources # {} /\ readyState[DefaultSource] = "OPEN")
    => /\ \E i \in Calls(Sender, "android-available") :
              out[i].msg.info = Cardinality(Sources)
       /\ Cardinality(UNION {Calls(c, "request-offer") : c \in Conns}) = 1
       /\ \E i \in Calls(DefaultSource, "request-offer") :
              out[i].msg.browserId = ViewerTag

\* ----------------------------------------------------------------- C14
\* C14: an opaque envelope from a registered Source (no connection being in
\* both roles) is delivered once to every Viewer whose handle is open,
\* carrying the sender's identity, and is sent to no Source.
C14_SourceEnvelopeBroadcastTagged ==
    (/\ IsMessage /\ handled.type \in OpaqueTypes
     /\ Sender \in Sources /\ Sources \cap Viewers = {})
    => /\ \A v \in Viewers : readyState[v] = "OPEN" =>
              /\ Deliveries(v, handled.type) = 1
              /\ \A i \in Calls(v, handled.type) : out[i].msg.androidId = Sender
       /\ \A s \in Sources : Calls(s, handled.type) = {}

\* ----------------------------------------------------------------- C18
\* C18: an opaque envelope from a registered Viewer (no connection being in
\* both roles), camera-status and camera-error included, is delivered to at
\* most one Source and to no Viewer.
C18_ViewerEnvelopeToOneSource ==
    (/\ IsMessage /\ handled.type \in OpaqueTypes
     /\ Sender \in Viewers /\ Sources \cap Viewers = {})
    => /\ \A v \in Viewers : Deliveries(v, handled.type) = 0
       /\ Cardinality({s \in Sources : Deliveries(s, handled.type) > 0}) <= 1

\* ----------------------------------------------------------------- C19
\* C19: a frame that cannot be decoded, from a registered connection,
\* leaves both registries and the sender's activity timestamp as they were,
\* and nothing is sent to any other connection.
C19_UndecodableFrameNoEffect ==
    [][(/\ handled'.ev = "message" /\ handled'.type = "BAD"
        /\ Role(handled'.ws) # "")
       => /\ androidClient' = androidClient /\ browserClients' = browserClients
          /\ androidClients' = androidClients
          /\ renderBrowserClients' = renderBrowserClients
          /\ connectionTimestamps'[handled'.ws] = connectionTimestamps[handled'.ws]
          /\ \A i \in 1 .. Len(out') : out'[i].to = handled'.ws]_vars

\* ----------------------------------------------------------------- C20
\* C20: when the error event of a registered connection has been handled,
\* the connection has no record in the registry and, if it was a Source,
\* every open Viewer has been sent android-disconnected.
C20_ErrorTearsDown ==
    [][(handled'.ev = "error" /\ Role(handled'.ws) # "")
       => /\ handled'.ws \notin Sources' \cup Viewers'
          /\ handled'.ws \in Sources =>
                 \A v \in Viewers' : readyState'[v] = "OPEN" =>
                     \E i \in 1 .. Len(out') :
                         /\ out'[i].to = v
                         /\ out'[i].msg.type = "android-disconnected"]_vars

\* ----------------------------------------------------------------- C16
SweepEvents == {"cleanup", "keepalive", "stale"}

\* C16: a pass of a sweep (cleanup, keepalive or stale-cleanup) leaves no
\* connection whose record it removed with an OPEN handle, and no
\* connection whose handle it closed with a record.
C16_EvictionRemovesAndCloses ==
    [][handled'.ev \in SweepEvents
       => \A c \in Conns :
              /\ (c \in Sources \cup Viewers /\ c \notin Sources' \cup Viewers')
                    => readyState'[c] # "OPEN"
              /\ (readyState[c] = "OPEN" /\ readyState'[c] # "OPEN")
                    => c \notin Sources' \cup Viewers']_vars

\* ----------------------------------------------------------------- C17
\* The time of the last activity the server recorded for Viewer v.
ViewerLastSeen(v) ==
    IF IsSingle THEN connectionTimestamps[v]
    ELSE renderBrowserClients[IndexOfId(renderBrowserClients, v)].lastSeen
TimeoutBound == IF IsSingle THEN CONNECTION_TIMEOUT ELSE CLIENT_TIMEOUT

\* C17: a pass of the timeout sweep leaves no Viewer registered and OPEN
\* that has been silent for longer than the timeout bound (its
\* registration is the only frame the server ever received).
C17_SweepEvictsSilentViewer ==
    \A v \in Viewers :
        ~ (/\ handled.ev \in {"cleanup", "stale"}
           /\ frames = 1
           /\ readyState[v] = "OPEN"
           /\ now - ViewerLastSeen(v) > TimeoutBound)

\* ---------------------------------------------------------------------
\* SpecReplace: the single-Source server with MaxConns connections that
\* register and send envelopes in the first time units; the replaced
\* Sources are remembered.
\* ---------------------------------------------------------------------
ReplaceFrames1 ==
    {Env("client-type", "android", 0, 0, 0), Env("client-type", "browser", 0, 0, 0),
     Env("offer", "", 0, 0, 0), Env("camera-status", "", 0, 0, 0)}

\* A connection that registers as Android replaces the androidClient.
Replace(c, m) ==
    LET regA == m.type = "client-type" /\ m.client = "android"
    IN  /\ replaced' = [p \in Conns |->
              IF regA /\ p = c THEN FALSE
              ELSE IF regA /\ androidClient = p THEN TRUE
              ELSE replaced[p]]
        /\ UNCHANGED <<pingPending, missed, timedOut, quiet, stayed, notified, regStamp>>

ReplaceMessage(c, m) == Framed /\ Message1(c, m) /\ Replace(c, m)
EarlyTick == now < MaxFrameTime /\ TickCore /\ Plain

NextR ==
    \/ \E c \in Conns : Connect(c)
    \/ \E c \in Conns : PeerClose(c)
    \/ EarlyTick
    \/ \E c \in Conns : \E m \in ReplaceFrames1 : ReplaceMessage(c, m)
    \/ \E c \in Conns : SinglePong(c)
    \/ \E c \in Conns : SingleClose(c)
    \/ \E c \in Conns : SingleError(c)
    \/ \E c \in Conns : SinglePingTimer(c)

SpecReplace == InitSingle /\ [][NextR]_vars

TargetFrames2(c) ==
    {Env("client-type", "android", 0, 0, 0), Env("client-type", "browser", 0, 0, 0)}
    \cup {Env("offer", "", a, 0, 0) : a \in ConnOrNull}

NextG ==
    \/ \E c \in Conns : Connect(c)
    \/ \E c \in Conns : PeerClose(c)
    \/ EarlyTick
    \/ \E c \in Conns : \E m \in TargetFrames2(c) : MultiMessage(c, m)
    \/ \E c \in Conns : MultiPong(c)
    \/ \E c \in Conns : MultiClose(c)
    \/ \E c \in Conns : MultiError(c)
    \/ MultiKeepalive

SpecTarget == InitMulti /\ [][NextG]_vars

\* ----------------------------------------------------------------- C11
\* The Source the envelope of the last step is to reach: the one it names
\* when that one is registered and OPEN, else the first one.
IntendedSource ==
    IF handled.androidId \in Sources /\ readyState[handled.androidId] = "OPEN"
    THEN handled.androidId
    ELSE FirstAndroid(androidClients)

\* C11: on the multi-Source server an envelope of a Viewer is sent to the
\* Source it names when that Source is registered and OPEN and to the first
\* Source in every other case, and to no other connection; it is delivered
\* when that Source's handle is OPEN.
C11_TargetElseFirst ==
    (/\ IsMulti /\ IsMessage /\ handled.type = "offer"
     /\ Sender \in Viewers \ Sources /\ Sources # {})
    => /\ \A c \in Conns \ {IntendedSource} : Calls(c, "offer") = {}
       /\ readyState[IntendedSource] = "OPEN" => Deliveries(IntendedSource, "offer") = 1

\* ----------------------------------------------------------------- C21
\* C21: a connection whose close event has been handled (its socket is
\* CLOSED) has no record as Source or Viewer and, on the single-Source
\* server, no ping interval and no timestamp, in every state from then on.
C21_NothingOutlivesClose ==
    \A c \in Conns :
        readyState[c] = "CLOSED"
        => /\ c \notin Sources \cup Viewers
           /\ IsSingle => /\ pingIntervals[c] = NoTimer
                          /\ connectionTimestamps[c] = Absent

\* The registered Source of the single-Source server has just closed: the
\* Viewers were told, and nothing of it is left.
C21_Witness ==
    /\ IsSingle /\ handled.ev = "close" /\ readyState[Sender] = "CLOSED"
    /\ \E v \in Viewers : Deliveries(v, "android-disconnected") = 1

\* ---------------------------------------------------------------------
\* SpecSweep: the single-Source server with MaxConns connections that
\* register, close and are swept by the cleanup pass; the replaced Sources
\* are remembered.
\* ---------------------------------------------------------------------
SweepTick == now < CLEANUP_INTERVAL /\ TickCore /\ Plain

NextW ==
    \/ \E c \in Conns : Connect(c)
    \/ \E c \in Conns : PeerClose(c)
    \/ SweepTick
    \/ \E c \in Conns : \E m \in RegisterFrames1 : ReplaceMessage(c, m)
    \/ \E c \in Conns : SinglePong(c)
    \/ \E c \in Conns : SingleClose(c)
    \/ \E c \in Conns : SingleError(c)
    \/ \E c \in Conns : SinglePingTimer(c)
    \/ SingleCleanup

SpecSweep == InitSingle /\ [][NextW]_vars

\* ----------------------------------------------------------------- C22
\* C22: on the single-Source server the close event of a Source that has
\* been replaced leaves androidClient as it was and sends nothing: no
\* android-disconnected is broadcast.
C22_ReplacedCloseHarmless ==
    [][(handled'.ev = "close" /\ replaced[handled'.ws])
       => /\ androidClient' = androidClient
          /\ out' = <<>>]_vars

\* A replaced Source closed after a cleanup pass, while its successor was
\* registered and open and an open Viewer was there to be told.
C22_Witness ==
    /\ IsSingle /\ handled.ev = "close" /\ replaced[Sender]
    /\ androidClient \notin {Null, Sender} /\ readyState[androidClient] = "OPEN"
    /\ \E v \in Viewers : readyState[v] = "OPEN"
    /\ nextCleanup > CLEANUP_INTERVAL
    /\ out = <<>>
====
